---- MODULE Spec2Model ----
(***************************************************************************)
(* Model of the read side of the bulk email-verification API               *)
(* (src/src/routes/bulk/get.rs): the job status handler, the result        *)
(* export handler (JSON passthrough and CSV flattening) and the            *)
(* conversion of one stored serde_json document into one CSV record.       *)
(***************************************************************************)
EXTENDS Integers, Sequences, FiniteSets, TLC

VARIABLES
    bulk_jobs,      \* table bulk_jobs: job id -> JobRecord
    email_results,  \* table email_results ORDER BY id: sequence of [job_id, result]
    pc,             \* per status caller: "idle", "fetched" (between the two queries), "done"
    arg,            \* per status caller: the job_id path parameter of its current call
    job_rec,        \* per status caller: the JobRecord read by the first query
    resp,           \* per status caller: the reply of its last finished call
    prior,          \* per status caller: callers whose held reply had returned when this call began
    export,         \* the export reply being handed to the boundary layer, or NoReply
    cw,             \* the CsvWrapper handed to try_from (conversion specification)
    converted       \* what try_from returned for cw, or NotConverted

vars == <<bulk_jobs, email_results, pc, arg, job_rec, resp, prior, export, cw, converted>>

----------------------------------------------------------------------------
(* serde_json::Value.  An object is a map from keys to values (the default *)
(* serde_json Map is a BTreeMap), so it carries no document order.         *)

JNull == [t |-> "null"]
JBool(b) == [t |-> "bool", b |-> b]
JNum(n) == [t |-> "num", n |-> n]
JStr(s) == [t |-> "str", s |-> s]
JArr(a) == [t |-> "arr", a |-> a]
JObj(m) == [t |-> "obj", m |-> m]

EmptyMap == <<>>

\* Every key the model's documents use, in byte order: the order in which
\* BTreeMap::keys() and ::values() walk an object.
KeyOrder ==
    << "accepts_email", "can_connect_smtp", "domain", "error", "extra",
       "has_full_inbox", "input", "is_catch_all", "is_deliverable",
       "is_disabled", "is_disposable", "is_reachable", "is_role_account",
       "is_valid_syntax", "misc", "mx", "smtp", "syntax", "username" >>

\* keys() of an object, in iteration order
Keys(m) == SelectSeq(KeyOrder, LAMBDA k : k \in DOMAIN m)

BoolText(b) == IF b THEN "true" ELSE "false"

\* impl Display for serde_json::Value (val.to_string()): the compact JSON
\* text of the value.  A string is written inside double quotes.  The strings
\* of the model hold no character that JSON escapes.
RECURSIVE Display(_)
RECURSIVE DisplayItems(_)
RECURSIVE DisplayMembers(_, _)
DisplayItems(a) ==
    IF a = <<>> THEN ""
    ELSE IF Len(a) = 1 THEN Display(a[1])
    ELSE Display(a[1]) \o "," \o DisplayItems(Tail(a))

DisplayMembers(m, ks) ==
    IF ks = <<>> THEN ""
    ELSE LET one == "\"" \o Head(ks) \o "\":" \o Display(m[Head(ks)])
         IN IF Len(ks) = 1 THEN one ELSE one \o "," \o DisplayMembers(m, Tail(ks))

Display(v) ==
    CASE v.t = "null" -> "null"
      [] v.t = "bool" -> BoolText(v.b)
      [] v.t = "num"  -> ToString(v.n)
      [] v.t = "str"  -> "\"" \o v.s \o "\""
      [] v.t = "arr"  -> "[" \o DisplayItems(v.a) \o "]"
      [] v.t = "obj"  -> "{" \o DisplayMembers(v.m, Keys(v.m)) \o "}"

----------------------------------------------------------------------------
(* Option<T> and Result<T, E> *)

None == <<>>
Some(x) == <<x>>

Ok(x) == [ok |-> TRUE, val |-> x]
Err(e) == [ok |-> FALSE, err |-> e]

----------------------------------------------------------------------------
(* TryFrom<CsvWrapper> for JobResultCsvResponse *)

\* the locals of try_from before the loop
Defaults ==
    [ input |-> "", is_reachable |-> "",
      misc_is_disposable |-> FALSE, misc_is_role_account |-> FALSE,
      mx_accepts_mail |-> FALSE,
      smtp_can_connect |-> FALSE, smtp_has_full_inbox |-> FALSE,
      smtp_is_catch_all |-> FALSE, smtp_is_deliverable |-> FALSE,
      smtp_is_disabled |-> FALSE,
      syntax_is_valid_syntax |-> FALSE, syntax_domain |-> "",
      syntax_username |-> "", error |-> None ]

\* slot = val.as_str().ok_or(msg)?.to_string()
SetStr(acc, slot, val, msg) ==
    IF val.t = "str" THEN Ok([acc EXCEPT ![slot] = val.s]) ELSE Err(msg)

\* slot = val.as_bool().ok_or(msg)?
SetBool(acc, slot, val, msg) ==
    IF val.t = "bool" THEN Ok([acc EXCEPT ![slot] = val.b]) ELSE Err(msg)

\* error = Some(val.to_string())
SetError(acc, val) == Ok([acc EXCEPT !.error = Some(Display(val))])

match_misc(acc, key, val) ==
    CASE key = "error" -> SetError(acc, val)
      [] key = "is_disposable" ->
            SetBool(acc, "misc_is_disposable", val, "is_disposable should be a boolean")
      [] key = "is_role_account" ->
            SetBool(acc, "misc_is_role_account", val, "is_role_account should be a boolean")
      [] OTHER -> Ok(acc)

match_mx(acc, key, val) ==
    CASE key = "error" -> SetError(acc, val)
      [] key = "accepts_email" ->
            SetBool(acc, "mx_accepts_mail", val, "accepts_email should be a boolean")
      [] OTHER -> Ok(acc)

match_smtp(acc, key, val) ==
    CASE key = "error" -> SetError(acc, val)
      [] key = "can_connect_smtp" ->
            SetBool(acc, "smtp_can_connect", val, "can_connect_smtp should be a boolean")
      [] key = "has_full_inbox" ->
            SetBool(acc, "smtp_has_full_inbox", val, "has_full_inbox should be a boolean")
      [] key = "is_catch_all" ->
            SetBool(acc, "smtp_is_catch_all", val, "is_catch_all should be a boolean")
      [] key = "is_deliverable" ->
            SetBool(acc, "smtp_is_deliverable", val, "is_deliverable should be a boolean")
      [] key = "is_disabled" ->
            SetBool(acc, "smtp_is_disabled", val, "is_disabled should be a boolean")
      [] OTHER -> Ok(acc)

match_syntax(acc, key, val) ==
    CASE key = "error" -> SetError(acc, val)
      [] key = "is_valid_syntax" ->
            SetBool(acc, "syntax_is_valid_syntax", val, "is_valid_syntax should be a boolean")
      [] key = "username" ->
            SetStr(acc, "syntax_username", val, "username should be a string")
      [] key = "domain" ->
            SetStr(acc, "syntax_domain", val, "domain should be a string")
      [] OTHER -> Ok(acc)

\* the inner loops: for (key, val) in obj.keys().zip(obj.values()), leaving
\* at the first `?` that fails
RECURSIVE for_each(_, _, _, _)
for_each(section, m, ks, acc) ==
    IF ks = <<>> THEN Ok(acc)
    ELSE LET key == Head(ks)
             val == m[key]
             r == CASE section = "misc"   -> match_misc(acc, key, val)
                    [] section = "mx"     -> match_mx(acc, key, val)
                    [] section = "smtp"   -> match_smtp(acc, key, val)
                    [] section = "syntax" -> match_syntax(acc, key, val)
         IN IF r.ok THEN for_each(section, m, Tail(ks), r.val) ELSE r

\* let obj = val.as_object().ok_or(msg)?; then the inner loop
Section(acc, section, val, msg) ==
    IF val.t = "obj" THEN for_each(section, val.m, Keys(val.m), acc) ELSE Err(msg)

match_top(acc, key, val) ==
    CASE key = "input" -> SetStr(acc, "input", val, "input should be a string")
      [] key = "is_reachable" ->
            SetStr(acc, "is_reachable", val, "is_reachable should be a string")
      [] key = "misc" -> Section(acc, "misc", val, "misc field should be an object")
      [] key = "mx" -> Section(acc, "mx", val, "mx field should be an object")
      [] key = "smtp" -> Section(acc, "smtp", val, "mx field should be an object")
      [] key = "syntax" -> Section(acc, "syntax", val, "syntax field should be an object")
      [] OTHER -> Ok(acc)

\* the outer loop over top_level
RECURSIVE for_top(_, _, _)
for_top(m, ks, acc) ==
    IF ks = <<>> THEN Ok(acc)
    ELSE LET r == match_top(acc, Head(ks), m[Head(ks)])
         IN IF r.ok THEN for_top(m, Tail(ks), r.val) ELSE r

try_from(value) ==
    IF value.t = "obj"
    THEN for_top(value.m, Keys(value.m), Defaults)
    ELSE Err("Failed to find top level object")

----------------------------------------------------------------------------
(* Integer casts *)

I32Max == 2147483647

\* `x as i32` for an i64 x with 0 <= x < 2^32: the low 32 bits, two's complement
AsI32(x) == IF x > I32Max THEN ((x - I32Max) - 1) - I32Max - 1 ELSE x

\* A u64 is held as its top bit and its low 63 bits: the value top * 2^63 + low.
U64(n) == [top |-> 0, low |-> n]

\* `x as i64` for a u64 x: the same 64 bits, where the top bit now weighs
\* -2^63, so the result is low - neg * 2^63 and is negative exactly when the
\* top bit is set.
AsI64(x) == [neg |-> x.top = 1, low |-> x.low]

----------------------------------------------------------------------------
(* The store *)

\* a row of bulk_jobs
JobRecord(id, total_records) ==
    [id |-> id, created_at |-> id, total_records |-> total_records]

\* rows of email_results WHERE job_id = $1 ORDER BY id
RowsOf(job_id) == SelectSeq(email_results, LAMBDA row : row.job_id = job_id)

\* result ->> 'key' : the member as text, NULL (None) when result is no
\* object, has no such member, or the member is JSON null
ArrowText(result, key) ==
    IF result.t = "obj" /\ key \in DOMAIN result.m
    THEN LET v == result.m[key]
         IN CASE v.t = "null" -> None
              [] v.t = "str"  -> Some(v.s)
              [] OTHER        -> Some(Display(v))
    ELSE None

\* text LIKE 'pattern' for a pattern without % or _ ; NULL LIKE .. is not true
Like(text, pattern) == text # None /\ text[1] = pattern

\* COUNT(CASE WHEN .. THEN 1 ELSE 0 END): COUNT counts the 0 as well
CountCaseElseZero(rows, category) == Len(rows)

\* COUNT(CASE WHEN result ->> 'is_reachable' LIKE category THEN 1 END)
CountCase(rows, category) ==
    Cardinality({i \in DOMAIN rows :
                    Like(ArrowText(rows[i].result, "is_reachable"), category)})

\* the aggregate query of job_status: one statement, one snapshot of the table
agg_info(job_id) ==
    LET rows == RowsOf(job_id)
    IN [ total_processed |-> Some(Len(rows)),
         safe_count      |-> Some(CountCase(rows, "safe")),
         risky_count     |-> Some(CountCase(rows, "risky")),
         invalid_count   |-> Some(CountCase(rows, "invalid")),
         unknown_count   |-> Some(CountCase(rows, "unknown")) ]

unwrap(opt) == opt[1]

----------------------------------------------------------------------------
(* job_status *)

\* a comparison the cast and the `<` of line 489 could be mistaken for
ValidStatusOrEqual(total_processed, total_records) ==
    IF AsI32(total_processed) <= total_records THEN "Running" ELSE "Completed"

\* the same comparison turned around
ValidStatusReversed(total_processed, total_records) ==
    IF AsI32(total_processed) > total_records THEN "Running" ELSE "Completed"

ValidStatus(total_processed, total_records) ==
    IF AsI32(total_processed) < total_records THEN "Running" ELSE "Completed"

JobStatusResponseBody(rec, agg) ==
    [ job_id          |-> rec.id,
      created_at      |-> rec.created_at,
      total_records   |-> rec.total_records,
      total_processed |-> AsI32(unwrap(agg.total_processed)),
      summary |-> [ total_safe    |-> AsI32(unwrap(agg.safe_count)),
                    total_risky   |-> AsI32(unwrap(agg.risky_count)),
                    total_invalid |-> AsI32(unwrap(agg.invalid_count)),
                    total_unknown |-> AsI32(unwrap(agg.unknown_count)) ],
      job_status |-> ValidStatus(unwrap(agg.total_processed), rec.total_records) ]

Callers == {"c1", "c2"}

NoRecord == [id |-> 0]
NoReply == [ok |-> FALSE, err |-> "none"]

\* job_status up to its first await: the job record query.  fetch_one fails
\* with RowNotFound when no row matches and the `?` returns the error.
StatusFetchJob(c, job_id) ==
    /\ pc[c] # "fetched"
    /\ arg' = [arg EXCEPT ![c] = job_id]
    /\ prior' = [d \in Callers |->
                    IF d = c THEN {e \in Callers \ {c} : pc[e] = "done"}
                             ELSE prior[d] \ {c}]
    /\ IF job_id \in DOMAIN bulk_jobs
       THEN /\ job_rec' = [job_rec EXCEPT ![c] = bulk_jobs[job_id]]
            /\ pc' = [pc EXCEPT ![c] = "fetched"]
            /\ resp' = [resp EXCEPT ![c] = NoReply]
       ELSE /\ job_rec' = [job_rec EXCEPT ![c] = NoRecord]
            /\ pc' = [pc EXCEPT ![c] = "done"]
            /\ resp' = [resp EXCEPT ![c] = Err("Sqlx(RowNotFound)")]
    /\ UNCHANGED <<bulk_jobs, email_results, export, cw, converted>>

\* job_status from the aggregate query to the reply
StatusAggregate(c) ==
    /\ pc[c] = "fetched"
    /\ resp' = [resp EXCEPT ![c] = Ok(JobStatusResponseBody(job_rec[c], agg_info(arg[c])))]
    /\ pc' = [pc EXCEPT ![c] = "done"]
    /\ UNCHANGED <<bulk_jobs, email_results, arg, job_rec, prior, export, cw, converted>>

----------------------------------------------------------------------------
(* job_result, job_result_json, job_result_csv *)

\* SELECT result FROM email_results WHERE job_id = $1 ORDER BY id
\* LIMIT $2 OFFSET $3, with $2 and $3 of type i64.  The server rejects a
\* negative OFFSET or LIMIT; otherwise it skips `offset` rows and returns at
\* most `limit` of the rest.
fetch_all(job_id, limit, offset) ==
    LET rows == RowsOf(job_id)
        first == offset.low + 1
        last == IF offset.low + limit.low < Len(rows)
                THEN offset.low + limit.low ELSE Len(rows)
    IN IF offset.neg THEN Err("Sqlx(Database: OFFSET must not be negative)")
       ELSE IF limit.neg THEN Err("Sqlx(Database: LIMIT must not be negative)")
       ELSE Ok([i \in 1..(IF last >= first THEN last - first + 1 ELSE 0) |->
                    rows[first + i - 1].result])

job_result_json(job_id, limit, offset) ==
    fetch_all(job_id, AsI64(limit), AsI64(offset))

\* the header record csv::Writer derives from the field names (serde renames)
\* of JobResultCsvResponse, in declaration order
CsvHeader ==
    << "input", "is_reachable", "misc.is_disposable", "misc.is_role_account",
       "mx.accepts_mail", "smtp.can_connect", "smtp.has_full_inbox",
       "smtp.is_catch_all", "smtp.is_deliverable", "smtp.is_disabled",
       "syntax.is_valid_syntax", "syntax.domain", "syntax.username", "error" >>

\* the fields of one serialized JobResultCsvResponse, before CSV quoting
CsvRecord(r) ==
    << r.input, r.is_reachable, BoolText(r.misc_is_disposable),
       BoolText(r.misc_is_role_account), BoolText(r.mx_accepts_mail),
       BoolText(r.smtp_can_connect), BoolText(r.smtp_has_full_inbox),
       BoolText(r.smtp_is_catch_all), BoolText(r.smtp_is_deliverable),
       BoolText(r.smtp_is_disabled), BoolText(r.syntax_is_valid_syntax),
       r.syntax_domain, r.syntax_username,
       IF r.error = None THEN "" ELSE r.error[1] >>

\* wtr.serialize(record) with has_headers(true): the header record is written
\* by the first call, before that call's record
serialize(wtr, r) ==
    IF wtr = <<>> THEN <<CsvHeader, CsvRecord(r)>> ELSE Append(wtr, CsvRecord(r))

\* a loop that drops a document it cannot convert and goes on
RECURSIVE write_rows_skipping(_, _)
write_rows_skipping(docs, wtr) ==
    IF docs = <<>> THEN Ok(wtr)
    ELSE LET r == try_from(Head(docs))
         IN IF r.ok THEN write_rows_skipping(Tail(docs), serialize(wtr, r.val))
                    ELSE write_rows_skipping(Tail(docs), wtr)

\* the loop of job_result_csv: convert and serialize each fetched document,
\* returning ReacherError::Csv() at the first conversion that fails
RECURSIVE write_rows(_, _)
write_rows(docs, wtr) ==
    IF docs = <<>> THEN Ok(wtr)
    ELSE LET r == try_from(Head(docs))
         IN IF r.ok THEN write_rows(Tail(docs), serialize(wtr, r.val))
                    ELSE Err("Csv")

job_result_csv(job_id, limit, offset) ==
    LET q == fetch_all(job_id, AsI64(limit), AsI64(offset))
    IN IF q.ok THEN write_rows(q.val, <<>>) ELSE q

DefaultLimitJson == 50
DefaultLimitCsv == 5000
DefaultOffset == 0

unwrap_or(opt, default) == IF opt = None THEN default ELSE opt[1]

job_result(job_id, req) ==
    LET format == unwrap_or(req.format, "json")
    IN IF format = "json"
       THEN LET data == job_result_json(job_id,
                            unwrap_or(req.limit, U64(DefaultLimitJson)),
                            unwrap_or(req.offset, U64(DefaultOffset)))
            IN IF data.ok
               THEN Ok([content_type |-> "application/json",
                        body |-> [results |-> data.val]])
               ELSE data
       ELSE LET data == job_result_csv(job_id,
                            unwrap_or(req.limit, U64(DefaultLimitCsv)),
                            unwrap_or(req.offset, U64(DefaultOffset)))
            IN IF data.ok
               THEN Ok([content_type |-> "text/csv", body |-> data.val])
               ELSE data

\* GET /v0/bulk/{job_id}/download
JobResult(job_id, req) ==
    /\ export = NoReply
    /\ export' = [job_id |-> job_id, req |-> req, reply |-> job_result(job_id, req)]
    /\ UNCHANGED <<bulk_jobs, email_results, pc, arg, job_rec, resp, prior, cw, converted>>

\* the boundary layer sends the reply; the handler keeps nothing
ReplySent ==
    /\ export # NoReply
    /\ export' = NoReply
    /\ UNCHANGED <<bulk_jobs, email_results, pc, arg, job_rec, resp, prior, cw, converted>>

----------------------------------------------------------------------------
(* Bounds and the values the environment supplies *)

MaxRows == 2            \* rows of email_results while status calls run
MaxExportRows == 3      \* rows of email_results while exports run
MaxTotalRecords == 2    \* largest total_records of a job
MaxLimit == 2           \* largest low part of ?limit=
MaxOffset == 2          \* largest low part of ?offset=

ExistingJobs == {1, 2}
JobIds == {1, 2, 3}

Reachable(s) == JObj([input |-> JStr("a@x.io"), is_reachable |-> JStr(s)])

\* documents the worker stores while status calls run: the four categories,
\* another is_reachable value, no is_reachable member
StatusDocs ==
    { Reachable("safe"), Reachable("risky"), Reachable("invalid"),
      Reachable("unknown"), Reachable("safer"), JObj([input |-> JStr("a@x.io")]) }

DocTwoErrors ==
    JObj([ input |-> JStr("b@y.io"), is_reachable |-> JStr("invalid"),
           mx |-> JObj([accepts_email |-> JBool(FALSE), error |-> JStr("dns timeout")]),
           smtp |-> JObj([can_connect_smtp |-> JBool(FALSE),
                          error |-> JStr("connection refused")]) ])

\* documents the worker stores while exports run: two that convert, a JSON
\* array at top level
ExportDocs == { Reachable("safe"), DocTwoErrors, JArr(<<JStr("a@x.io")>>) }

Formats == {None, Some("json"), Some("csv")}
Limits == {None} \cup {Some(U64(n)) : n \in 0..MaxLimit} \cup {Some([top |-> 1, low |-> 0])}
Offsets == {None} \cup {Some(U64(n)) : n \in 0..MaxOffset} \cup {Some([top |-> 1, low |-> 0])}
Requests == [format : Formats, limit : Limits, offset : Offsets]

NotConverted == [ok |-> FALSE, err |-> "not converted"]

----------------------------------------------------------------------------
(* The system *)

\* the submitted jobs, with total_records between 1 and MaxTotalRecords that
\* differ from one job to the next; no result stored yet
InitStore ==
    /\ bulk_jobs \in { [j \in ExistingJobs |->
                            JobRecord(j, ((n + j) % MaxTotalRecords) + 1)] :
                          n \in 1..MaxTotalRecords }
    /\ email_results = <<>>

InitHandlers ==
    /\ pc = [c \in Callers |-> "idle"]
    /\ arg = [c \in Callers |-> 0]
    /\ job_rec = [c \in Callers |-> NoRecord]
    /\ resp = [c \in Callers |-> NoReply]
    /\ prior = [c \in Callers |-> {}]
    /\ export = NoReply

Init ==
    /\ InitStore
    /\ InitHandlers
    /\ cw = JNull
    /\ converted = NotConverted

\* the worker stores one verification result for a submitted job
InsertRow(job_id, doc, max) ==
    /\ Len(email_results) < max
    /\ email_results' = Append(email_results, [job_id |-> job_id, result |-> doc])
    /\ UNCHANGED <<bulk_jobs, pc, arg, job_rec, resp, prior, export, cw, converted>>

InsertStatusDoc == \E j \in ExistingJobs, d \in StatusDocs : InsertRow(j, d, MaxRows)
InsertExportDoc == \E j \in ExistingJobs, d \in ExportDocs : InsertRow(j, d, MaxExportRows)
GetJobStatusBegin == \E c \in Callers, j \in JobIds : StatusFetchJob(c, j)
GetJobStatusEnd == \E c \in Callers : StatusAggregate(c)
GetJobResult == \E j \in JobIds, req \in Requests : JobResult(j, req)

\* GET /v0/bulk/{id} calls running against a store that workers append to
NextStatus == InsertStatusDoc \/ GetJobStatusBegin \/ GetJobStatusEnd
Spec == Init /\ [][NextStatus]_vars

\* GET /v0/bulk/{id}/download calls running against a store that workers append to
NextExport == InsertExportDoc \/ GetJobResult \/ ReplySent
SpecExport == Init /\ [][NextExport]_vars

----------------------------------------------------------------------------
(* The conversion alone: try_from applied to one document *)

MaxTopKeys == 2         \* members of a generated top-level object
MaxSectionKeys == 2     \* members of a generated section object

Sections == <<"misc", "mx", "smtp", "syntax">>
SectionNames == {Sections[i] : i \in DOMAIN Sections}
StrKeys == {"input", "is_reachable", "username", "domain"}

\* the members try_from reads in a section, and one it does not
SectionKeys(section) ==
    CASE section = "misc"   -> {"is_disposable", "is_role_account", "error", "extra"}
      [] section = "mx"     -> {"accepts_email", "error", "extra"}
      [] section = "smtp"   -> {"can_connect_smtp", "has_full_inbox", "is_catch_all",
                                "is_deliverable", "is_disabled", "error", "extra"}
      [] section = "syntax" -> {"is_valid_syntax", "username", "domain", "error", "extra"}

\* per member: a value of the type try_from expects, and values of other types
LeafVals(key) ==
    CASE key = "error"   -> {JStr("dns timeout"), JStr("connection refused"), JNum(42)}
      [] key = "extra"   -> {JNum(7)}
      [] key \in StrKeys -> {JStr("x"), JNum(7)}
      [] OTHER           -> {JBool(TRUE), JStr("yes")}

\* maps with at most n of the keys K, each member drawn from vals[key]
RECURSIVE MapsOver(_, _, _)
MapsOver(K, n, vals) ==
    IF n = 0 THEN {EmptyMap}
    ELSE LET smaller == MapsOver(K, n - 1, vals)
         IN smaller \cup
            UNION { UNION { { [x \in DOMAIN m \cup {k} |-> IF x = k THEN v ELSE m[x]] :
                              v \in vals[k] } :
                            k \in K \ DOMAIN m } :
                    m \in smaller }

ObjectsOver(K, n, vals) == {JObj(m) : m \in MapsOver(K, n, vals)}

SectionVals(section) ==
    ObjectsOver(SectionKeys(section), MaxSectionKeys,
                [k \in SectionKeys(section) |-> LeafVals(k)]) \cup {JStr("oops")}

TopKeys == {"input", "is_reachable", "misc", "mx", "smtp", "syntax", "extra"}

TopVals(key) ==
    IF key \in SectionNames THEN SectionVals(key) ELSE LeafVals(key)

\* every recognized member present with a value of the expected type, and an
\* error in each of the sections named
FullDoc(errs) ==
    LET WithErr(section, m) ==
            IF section \in DOMAIN errs
            THEN [k \in DOMAIN m \cup {"error"} |->
                     IF k = "error" THEN JStr(errs[section]) ELSE m[k]]
            ELSE m
    IN JObj([ input |-> JStr("c@z.io"), is_reachable |-> JStr("risky"),
              misc |-> JObj(WithErr("misc", [is_disposable |-> JBool(TRUE),
                                             is_role_account |-> JBool(TRUE)])),
              mx |-> JObj(WithErr("mx", [accepts_email |-> JBool(TRUE)])),
              smtp |-> JObj(WithErr("smtp", [can_connect_smtp |-> JBool(TRUE),
                                             has_full_inbox |-> JBool(TRUE),
                                             is_catch_all |-> JBool(TRUE),
                                             is_deliverable |-> JBool(TRUE),
                                             is_disabled |-> JBool(TRUE)])),
              syntax |-> JObj(WithErr("syntax", [is_valid_syntax |-> JBool(TRUE),
                                                 username |-> JStr("c"),
                                                 domain |-> JStr("z.io")])) ])

FullDocs ==
    { FullDoc(errs) : errs \in UNION { [S -> {"dns timeout", "connection refused"}] :
                                        S \in SUBSET SectionNames } }

\* the documents try_from is applied to: objects with at most n top-level
\* members, the fully populated ones, and values that are no object
FlattenDocs(n) ==
    ObjectsOver(TopKeys, n, [k \in TopKeys |-> TopVals(k)])
    \cup FullDocs
    \cup {JArr(<<>>), JArr(<<JObj([input |-> JStr("x")])>>), JStr("x"), JNull}

InitFlatten ==
    /\ bulk_jobs = EmptyMap
    /\ email_results = <<>>
    /\ InitHandlers
    /\ cw \in FlattenDocs(MaxTopKeys)
    /\ converted = NotConverted

\* CsvWrapper(json_value).try_into()
TryInto ==
    /\ converted = NotConverted
    /\ converted' = try_from(cw)
    /\ UNCHANGED <<bulk_jobs, email_results, pc, arg, job_rec, resp, prior, export, cw>>

SpecFlatten == InitFlatten /\ [][TryInto]_vars

----------------------------------------------------------------------------
(* Properties of job_status *)

\* the step in which caller c's job_status call replies with a body
Replies(c) == pc[c] = "fetched" /\ pc'[c] = "done"

Categories == {"safe", "risky", "invalid", "unknown"}

\* the document's is_reachable member is the string s
IsReachable(doc, s) ==
    doc.t = "obj" /\ "is_reachable" \in DOMAIN doc.m /\ doc.m["is_reachable"] = JStr(s)

CategorySum(body) ==
    body.summary.total_safe + body.summary.total_risky
        + body.summary.total_invalid + body.summary.total_unknown

\* C1: a status call on an existing job replies with total_processed equal to
\* the number of rows stored for the job, and with Running when that number
\* is below the job's total_records and Completed otherwise (equal or above).
C1_StatusDerivation ==
    [][\A c \in Callers :
          Replies(c) =>
              LET n == Len(RowsOf(arg[c]))
                  body == resp'[c].val
              IN /\ resp'[c].ok
                 /\ body.total_processed = n
                 /\ body.total_records = bulk_jobs[arg[c]].total_records
                 /\ body.job_status =
                        IF n < body.total_records THEN "Running" ELSE "Completed"]_vars

\* a Completed reply that reports more rows processed than the job expected
C1_Witness ==
    \E c \in Callers :
        /\ pc[c] = "done" /\ resp[c].ok
        /\ resp[c].val.total_processed > resp[c].val.total_records
        /\ resp[c].val.job_status = "Completed"

\* C7: in every status reply the four category counts add up to at most
\* total_processed, each count is the number of the job's rows whose
\* is_reachable is that category, and the sum equals total_processed exactly
\* when every row of the job has one of the four values.
C7_CategoryCounts ==
    [][\A c \in Callers :
          Replies(c) =>
              LET rows == RowsOf(arg[c])
                  body == resp'[c].val
                  Count(s) == Cardinality({i \in DOMAIN rows : IsReachable(rows[i].result, s)})
              IN /\ body.summary.total_safe = Count("safe")
                 /\ body.summary.total_risky = Count("risky")
                 /\ body.summary.total_invalid = Count("invalid")
                 /\ body.summary.total_unknown = Count("unknown")
                 /\ CategorySum(body) <= body.total_processed
                 /\ (CategorySum(body) = body.total_processed) <=>
                        \A i \in DOMAIN rows :
                            \E s \in Categories : IsReachable(rows[i].result, s)]_vars

\* a reply that counted a row in no category next to a row in one
C7_Witness ==
    \E c \in Callers :
        /\ pc[c] = "done" /\ resp[c].ok
        /\ resp[c].val.total_processed = 2
        /\ CategorySum(resp[c].val) = 1

\* body b is at least body a in total_processed and in every category count
CountsAtLeast(b, a) ==
    /\ b.total_processed >= a.total_processed
    /\ b.summary.total_safe >= a.summary.total_safe
    /\ b.summary.total_risky >= a.summary.total_risky
    /\ b.summary.total_invalid >= a.summary.total_invalid
    /\ b.summary.total_unknown >= a.summary.total_unknown

\* C10: of two successful status calls on the same job, the second begun
\* after the first replied, the second reports counts at least those of the
\* first, and is Completed when the first was.
C10_StatusMonotonic ==
    \A c \in Callers : \A d \in prior[c] :
        (pc[c] = "done" /\ resp[c].ok /\ resp[d].ok /\ arg[c] = arg[d]) =>
            /\ CountsAtLeast(resp[c].val, resp[d].val)
            /\ resp[d].val.job_status = "Completed" =>
                   resp[c].val.job_status = "Completed"

\* a later call that saw rows the earlier one did not, and the status change
C10_Witness ==
    \E c \in Callers : \E d \in prior[c] :
        /\ pc[c] = "done" /\ resp[c].ok /\ resp[d].ok /\ arg[c] = arg[d]
        /\ resp[c].val.total_processed > resp[d].val.total_processed
        /\ resp[d].val.job_status = "Running"
        /\ resp[c].val.job_status = "Completed"

----------------------------------------------------------------------------
(* Properties of job_result *)

\* the step in which job_result replies
Exports == export = NoReply /\ export' # NoReply

IsCsv(req) == req.format = Some("csv")

\* the limit and offset a request stands for, with the defaults of its format
LimitOf(req) ==
    unwrap_or(req.limit, U64(IF IsCsv(req) THEN DefaultLimitCsv ELSE DefaultLimitJson))
OffsetOf(req) == unwrap_or(req.offset, U64(DefaultOffset))

\* the rows the store returned to the export that replies in this step
Fetched(e) == fetch_all(e.job_id, AsI64(LimitOf(e.req)), AsI64(OffsetOf(e.req)))

\* the data records of a CSV body: what follows the header record
DataRecords(body) == IF body = <<>> THEN <<>> ELSE Tail(body)

Converts(doc) == try_from(doc).ok

\* C2: for a job_id with no row in bulk_jobs, a status call and an export
\* (JSON or CSV) both fail; neither replies with a success body.
C2_UnknownJobFails ==
    /\ \A c \in Callers :
          (pc[c] = "done" /\ arg[c] \notin DOMAIN bulk_jobs) => ~resp[c].ok
    /\ (export # NoReply /\ export.job_id \notin DOMAIN bulk_jobs) => ~export.reply.ok

\* C4: when a document of the fetched page does not convert, the CSV export
\* fails as a whole and returns no body, while the JSON export of that page
\* succeeds and returns the fetched documents unchanged.
C4_CsvAllOrNothing ==
    [][Exports =>
          LET e == export'
              q == Fetched(e)
          IN (q.ok /\ \E i \in DOMAIN q.val : ~Converts(q.val[i])) =>
                 IF IsCsv(e.req)
                 THEN ~e.reply.ok
                 ELSE e.reply.ok /\ e.reply.val.body.results = q.val]_vars

\* a failed CSV export of a page whose first document converts and whose
\* second does not: rows had been written when the conversion failed
C4_Witness ==
    /\ export # NoReply /\ IsCsv(export.req) /\ ~export.reply.ok
    /\ export.reply.err = "Csv"
    /\ export.req.offset = None /\ export.req.limit = None
    /\ LET rows == RowsOf(export.job_id)
       IN Len(rows) >= 2 /\ Converts(rows[1].result) /\ ~Converts(rows[2].result)

\* C5: a CSV export whose page holds no document replies with a body that is
\* the header record alone.
C5_EmptyPageHasHeader ==
    [][Exports =>
          LET e == export'
              q == Fetched(e)
          IN (IsCsv(e.req) /\ q.ok /\ q.val = <<>>) =>
                 e.reply.ok /\ e.reply.val.body = <<CsvHeader>>]_vars

\* the documents of a job at the 1-indexed positions O+1 .. min(O+L, n), for
\* u64 L and O: a value with the top bit set is at least 2^63, above any n
ExpectedPage(job_id, L, O) ==
    LET rows == RowsOf(job_id)
        n == Len(rows)
        last == IF L.top = 1 \/ O.low + L.low > n THEN n ELSE O.low + L.low
        first == IF O.top = 1 THEN n + 1 ELSE O.low + 1
    IN [i \in 1..(IF last >= first THEN last - first + 1 ELSE 0) |->
           rows[first + i - 1].result]

\* C6: an export with limit L and offset O returns the job's documents at
\* positions O+1 .. min(O+L, n) in stored order: the JSON export as they are
\* stored, the CSV export (when each of them converts) as one record each.
C6_Pagination ==
    [][Exports =>
          LET e == export'
              page == ExpectedPage(e.job_id, LimitOf(e.req), OffsetOf(e.req))
          IN IF IsCsv(e.req)
             THEN (\A i \in DOMAIN page : Converts(page[i])) =>
                      /\ e.reply.ok
                      /\ DataRecords(e.reply.val.body) =
                             [i \in DOMAIN page |-> CsvRecord(try_from(page[i]).val)]
             ELSE e.reply.ok /\ e.reply.val.body.results = page]_vars

\* the same, for requests whose limit and offset have the top bit clear
C6_PaginationBelowTopBit ==
    [][Exports =>
          LET e == export'
              page == ExpectedPage(e.job_id, LimitOf(e.req), OffsetOf(e.req))
          IN (LimitOf(e.req).top = 0 /\ OffsetOf(e.req).top = 0) =>
             IF IsCsv(e.req)
             THEN (\A i \in DOMAIN page : Converts(page[i])) =>
                      /\ e.reply.ok
                      /\ DataRecords(e.reply.val.body) =
                             [i \in DOMAIN page |-> CsvRecord(try_from(page[i]).val)]
             ELSE e.reply.ok /\ e.reply.val.body.results = page]_vars

----------------------------------------------------------------------------
(* Properties of try_from *)

\* try_from has returned for cw, whose top level is an object
ConvertedObject == converted # NotConverted /\ cw.t = "obj"

\* the members of a section that the flat record has a column for
Recognized(section) == SectionKeys(section) \ {"extra"}

ExpectedType(key) == IF key \in StrKeys \cup {"error"} THEN "str" ELSE "bool"

\* the section is present in the document as an object
IsSection(doc, section) == section \in DOMAIN doc.m /\ doc.m[section].t = "obj"

\* the names of the recognized members and sections whose value has another
\* type than the one the flat record takes
Mismatches(doc) ==
    {k \in DOMAIN doc.m \cap {"input", "is_reachable"} : doc.m[k].t # "str"}
    \cup {k \in DOMAIN doc.m \cap SectionNames : doc.m[k].t # "obj"}
    \cup UNION { {k \in DOMAIN doc.m[sec].m \cap Recognized(sec) :
                      doc.m[sec].m[k].t # ExpectedType(k)} :
                 sec \in {x \in SectionNames : IsSection(doc, x)} }

HasError(doc, section) == IsSection(doc, section) /\ "error" \in DOMAIN doc.m[section].m

\* the error member of the last section, in the order misc, mx, smtp,
\* syntax, that has one
LastError(doc) ==
    LET last == CHOOSE i \in DOMAIN Sections :
                    /\ HasError(doc, Sections[i])
                    /\ \A j \in DOMAIN Sections : HasError(doc, Sections[j]) => j <= i
    IN doc.m[Sections[last]].m["error"]

AnyError(doc) == \E i \in DOMAIN Sections : HasError(doc, Sections[i])

\* C3: when sections carry an error member, the flat record's error is the
\* error string of the last of them in the order misc, mx, smtp, syntax
\* (mx "dns timeout" and smtp "connection refused" give connection refused).
C3_LastErrorWins ==
    (ConvertedObject /\ converted.ok /\ AnyError(cw) /\ LastError(cw).t = "str") =>
        converted.val.error = Some(LastError(cw).s)

\* the same, for the error as try_from stores it: the JSON text of the value
C3_LastErrorWinsAsJsonText ==
    (ConvertedObject /\ converted.ok /\ AnyError(cw)) =>
        converted.val.error = Some(Display(LastError(cw)))

StrAt(m, key) == IF key \in DOMAIN m THEN m[key].s ELSE ""
BoolAt(m, key) == IF key \in DOMAIN m THEN m[key].b ELSE FALSE
MembersOf(doc, section) == IF section \in DOMAIN doc.m THEN doc.m[section].m ELSE EmptyMap

\* the flat record a well-typed document stands for: each recognized member
\* as it is, the zero value where it is absent
ExpectedRecord(doc) ==
    LET misc == MembersOf(doc, "misc")
        mx == MembersOf(doc, "mx")
        smtp == MembersOf(doc, "smtp")
        syntax == MembersOf(doc, "syntax")
    IN [ input |-> StrAt(doc.m, "input"),
         is_reachable |-> StrAt(doc.m, "is_reachable"),
         misc_is_disposable |-> BoolAt(misc, "is_disposable"),
         misc_is_role_account |-> BoolAt(misc, "is_role_account"),
         mx_accepts_mail |-> BoolAt(mx, "accepts_email"),
         smtp_can_connect |-> BoolAt(smtp, "can_connect_smtp"),
         smtp_has_full_inbox |-> BoolAt(smtp, "has_full_inbox"),
         smtp_is_catch_all |-> BoolAt(smtp, "is_catch_all"),
         smtp_is_deliverable |-> BoolAt(smtp, "is_deliverable"),
         smtp_is_disabled |-> BoolAt(smtp, "is_disabled"),
         syntax_is_valid_syntax |-> BoolAt(syntax, "is_valid_syntax"),
         syntax_domain |-> StrAt(syntax, "domain"),
         syntax_username |-> StrAt(syntax, "username"),
         error |-> IF AnyError(doc) THEN Some(LastError(doc).s) ELSE None ]

\* C8: a document whose recognized members all have the expected type
\* converts to the flat record holding exactly those values, the error string
\* included, with zero values for absent members; unknown keys change nothing.
C8_RoundTrip ==
    (ConvertedObject /\ Mismatches(cw) = {}) => converted = Ok(ExpectedRecord(cw))

\* the same, for documents without an error member in any section
C8_RoundTripWithoutError ==
    (ConvertedObject /\ Mismatches(cw) = {} /\ ~AnyError(cw)) =>
        converted = Ok(ExpectedRecord(cw))

\* the field or section an error message of try_from names
FieldNamed(msg) ==
    CASE msg = "input should be a string" -> "input"
      [] msg = "is_reachable should be a string" -> "is_reachable"
      [] msg = "misc field should be an object" -> "misc"
      [] msg = "mx field should be an object" -> "mx"
      [] msg = "smtp field should be an object" -> "smtp"
      [] msg = "syntax field should be an object" -> "syntax"
      [] msg = "is_disposable should be a boolean" -> "is_disposable"
      [] msg = "is_role_account should be a boolean" -> "is_role_account"
      [] msg = "accepts_email should be a boolean" -> "accepts_email"
      [] msg = "can_connect_smtp should be a boolean" -> "can_connect_smtp"
      [] msg = "has_full_inbox should be a boolean" -> "has_full_inbox"
      [] msg = "is_catch_all should be a boolean" -> "is_catch_all"
      [] msg = "is_deliverable should be a boolean" -> "is_deliverable"
      [] msg = "is_disabled should be a boolean" -> "is_disabled"
      [] msg = "is_valid_syntax should be a boolean" -> "is_valid_syntax"
      [] msg = "username should be a string" -> "username"
      [] msg = "domain should be a string" -> "domain"
      [] msg = "error should be a string" -> "error"
      [] OTHER -> "(no field)"

\* C9: a document with a recognized member or section of the wrong type does
\* not convert, and the error names a member or section that has the wrong type.
C9_TypeMismatchNamesField ==
    (ConvertedObject /\ Mismatches(cw) # {}) =>
        ~converted.ok /\ FieldNamed(converted.err) \in Mismatches(cw)

\* the same, leaving out the error members and a smtp that is no object
C9_TypeMismatchOtherFields ==
    (ConvertedObject /\ Mismatches(cw) \ {"error", "smtp"} # {}
        /\ ("smtp" \in DOMAIN cw.m => cw.m["smtp"].t = "obj")) =>
        ~converted.ok /\ FieldNamed(converted.err) \in Mismatches(cw)

====
